---- MODULE Spec2Model ----
(***************************************************************************)
(* A model of cherry's ExperienceReplay (src/cherry/experience_replay.py). *)
(*                                                                         *)
(* The state is a small heap of ExperienceReplay objects, the outcome of   *)
(* the last call made on one of them, a history variable that counts the   *)
(* append calls, the files written by save, and the replay a caller keeps  *)
(* from a call.  Python indices are kept 0-based, as in the source;        *)
(* At(s, idx) reads a TLA+ sequence at a Python index.                     *)
(***************************************************************************)
EXTENDS Integers, Sequences, FiniteSets, TLC

\* ---------------------------------------------------------------- bounds
\* Largest number of Transitions replay 1 holds.
MaxLen == 3
\* Number of parallel environments of a vectorized Transition.
NumEnvs == 2

\* The replays of the heap.
Bufs == {1, 2}
\* Largest number of Transitions replay 2, the other operand, holds.
MaxOther == MaxLen - 2
\* Device tags; "none" is Python's None.
Devices == {"none", "cpu"}
\* The names infos can carry in append(**infos): log_prob is given as a
\* tensor, density as a distribution object (class docstring, lines 144-150).
InfoNames == {"log_prob", "density"}
\* The file paths handed to save and load.
Paths == {"replay.pt"}
\* The sizes asked of sample(): a size < 1, one, and more than one.
Sizes == {0, 1, 2}

VARIABLES
    replay,     \* replay[b]: the ExperienceReplay object b
    call,       \* the last call: its receiver, arguments and chosen indices
    ret,        \* what the last call returned, or that it raised
    appended,   \* appended[b]: successful append calls on b since its last empty() or load()
    disk,       \* disk[path]: what th.save wrote at path, or NoFile
    produced    \* the replay object a caller keeps from the last producing call

vars == <<replay, call, ret, appended, disk, produced>>

\* ------------------------------------------------------------ Transition
\* Transition.__init__: the five core fields, the infos, the device tag.
\* state and done are indexed by their leading axis; infos is the sequence
\* of the keyword arguments, each a name and its value, in the order given.
Transition(state, done, infos, device) ==
    [state |-> state, done |-> done, infos |-> infos, device |-> device]

\* An entry of infos: its name, whether its value is a tensor (append,
\* lines 314-316, makes one of every value that can be), and the value, a
\* tensor indexed by its leading axis.
Info(name, tensor, value) == [name |-> name, tensor |-> tensor, value |-> value]

\* The value of infos that is no tensor: a distribution object, of no axis.
Opaque == <<>>

\* Transition._fields, lines 54 and 59: the core names followed by the
\* infos' names, in order.
Fields(sars) ==
    <<"state", "action", "reward", "next_state", "done">>
        \o [i \in 1..Len(sars.infos) |-> sars.infos[i].name]

\* Whether the Transition carries the attribute.
HasField(sars, name) == \E i \in 1..Len(Fields(sars)) : Fields(sars)[i] = name

\* getattr(sars, name) for state, done and the infos.
GetField(sars, name) ==
    IF name = "state" THEN sars.state
    ELSE IF name = "done" THEN sars.done
    ELSE sars.infos[CHOOSE i \in 1..Len(sars.infos) : sars.infos[i].name = name].value

\* isinstance(getattr(sars, name), th.Tensor): the core fields are tensors
\* (append, lines 317-321).
IsTensor(sars, name) ==
    IF name \in {"state", "done"} THEN TRUE
    ELSE sars.infos[CHOOSE i \in 1..Len(sars.infos) : sars.infos[i].name = name].tensor

\* Transition._apply / Transition.to: a new Transition with the same fields
\* and the given device tag, or its own when the device is None (lines 88-89);
\* the tensors' values are kept.
TransitionTo(sars, device) ==
    Transition(sars.state, sars.done, sars.infos,
               IF device = "none" THEN sars.device ELSE device)

\* --------------------------------------------------------- ExperienceReplay
\* ExperienceReplay.__init__
ExperienceReplay(storage, device, vectorized) ==
    [storage |-> storage, device |-> device, vectorized |-> vectorized]

\* ExperienceReplay.__len__
BufLen(self) == Len(self.storage)

\* self._storage[idx] for a Python index 0 <= idx < len
At(storage, idx) == storage[idx + 1]

\* The value ret holds when nothing was returned.
NoReplay == ExperienceReplay(<<>>, "none", FALSE)

\* kind: "none" (returned None), "new" (returned a newly built replay, buf),
\* "self" (returned the receiver itself), "raise" (the call raised),
\* "value" (returned the tensor batch).
Returned(kind, buf) == [kind |-> kind, buf |-> buf, batch |-> <<>>]

\* The return of a tensor.
ReturnedBatch(batch) == [kind |-> "value", buf |-> NoReplay, batch |-> batch]

\* disk[path] when nothing was saved at path.  data is what th.save wrote;
\* saved remembers the storage list as it was handed to th.save.
NoFile == [exists |-> FALSE, data |-> <<>>, saved |-> <<>>]

\* produced when the caller keeps nothing.  from is the replay the kept one
\* was produced from, by the call op; same tells that the kept replay is
\* that very object (the call returned self).
NoProduced == [buf |-> NoReplay, from |-> 0, op |-> "none", same |-> FALSE]

\* device is the device handed to to(); "none" for every other call.
Call(op, self, other, size, contiguous, episodes) ==
    [op |-> op, self |-> self, other |-> other, size |-> size,
     contiguous |-> contiguous, episodes |-> episodes, device |-> "none"]

\* The number of Transitions replay b may hold.
Capacity(b) == IF b = 1 THEN MaxLen ELSE MaxOther

Init ==
    /\ \E v1, v2 \in BOOLEAN :
            replay = [b \in Bufs |-> IF b = 1 THEN ExperienceReplay(<<>>, "none", v1)
                                     ELSE ExperienceReplay(<<>>, "cpu", v2)]
    /\ call = Call("init", 1, 1, 0, FALSE, FALSE)
    /\ ret = Returned("none", NoReplay)
    /\ appended = [b \in Bufs |-> 0]
    /\ disk = [path \in Paths |-> NoFile]
    /\ produced = NoProduced

\* ------------------------------------------------------------------ append
\* The batches a caller hands to append.  The state is the number t of the
\* step: <<t>> for a plain replay, and for a vectorized replay one entry
\* 10 * t + e for each environment e.  The done batch of a vectorized replay
\* has NumEnvs entries (no environment done, or the last one alone) or one
\* entry too few.
StateInput(vectorized, t) ==
    IF vectorized THEN [e \in 1..NumEnvs |-> 10 * t + e] ELSE <<t>>

\* The infos a caller hands to append: none, a log_prob tensor with one entry
\* for each environment, or a log_prob and a density in either order.
InfoInputs(vectorized, t) ==
    LET log_prob == Info("log_prob", TRUE,
                         [e \in 1..Len(StateInput(vectorized, t)) |->
                              0 - StateInput(vectorized, t)[e]])
        density == Info("density", FALSE, Opaque)
    IN  {<<>>, <<log_prob>>, <<log_prob, density>>, <<density, log_prob>>}

DoneInputs(vectorized) ==
    IF vectorized
    THEN {[e \in 1..NumEnvs |-> FALSE], [e \in 1..NumEnvs |-> e = NumEnvs],
          [e \in 1..(NumEnvs - 1) |-> FALSE]}
    ELSE {<<d>> : d \in BOOLEAN}

\* append, lines 322-326: done.reshape(num_envs, -1) raises when the number
\* of entries of done is no multiple of num_envs = state.shape[0].
AppendRaises(self, state, done) ==
    self.vectorized /\ Len(done) % Len(state) # 0

\* append as a window of two Transitions: the oldest one is dropped.
AppendToBounded(self, state, done, infos) ==
    LET sars == Transition(state, done, infos, "none")
        kept == IF Len(self.storage) >= 2 THEN Tail(self.storage) ELSE self.storage
    IN  [self EXCEPT !.storage = Append(kept, TransitionTo(sars, self.device))]

\* append, lines 327-335: the replay after a successful append.
AppendTo(self, state, done, infos) ==
    LET sars == Transition(state, done, infos, "none")
    IN  [self EXCEPT !.storage = Append(@, TransitionTo(sars, self.device))]

\* -------------------------------------------------------- __add__, __iadd__
\* __add__, lines 223-224: the assertion.
AddRaises(self, other) == self.vectorized # other.vectorized

\* __add__ with the operands of the concatenation swapped.
AddOtherFirst(self, other) ==
    ExperienceReplay(other.storage \o self.storage, self.device, self.vectorized)

\* __add__, lines 225-230: the replay returned.
Add(self, other) ==
    ExperienceReplay(self.storage \o other.storage, self.device, self.vectorized)

\* __iadd__, line 233: no assertion guards the in-place extension.
IAddRaises(self, other) == FALSE

\* __iadd__, lines 233-234: the receiver after self._storage += other._storage.
IAdd(self, other) == [self EXCEPT !.storage = @ \o other.storage]

\* ------------------------------------------------------------- __getitem__
\* self._storage[lo:hi] for 0 <= lo, hi: the entries at Python indices
\* lo .. min(hi, len) - 1.
PySlice(storage, lo, hi) ==
    LET stop == IF hi < Len(storage) THEN hi ELSE Len(storage)
    IN  IF lo >= stop THEN <<>> ELSE SubSeq(storage, lo + 1, stop)

\* __getitem__ with a slice key, lines 244-246.
GetSlice(self, lo, hi) ==
    ExperienceReplay(PySlice(self.storage, lo, hi), self.device, self.vectorized)

\* -------------------------------------------------------------- save, load
\* th.save of one Transition: the pickle of its __dict__, that is _fields,
\* then one attribute for each name of _fields, then device.  action, reward
\* and next_state are not part of the model and are written without a value.
PickleTransition(sars) ==
    [names |-> Fields(sars),
     attrs |-> [i \in 1..Len(Fields(sars)) |->
                    IF Fields(sars)[i] \in {"action", "reward", "next_state"}
                    THEN Info(Fields(sars)[i], TRUE, <<>>)
                    ELSE Info(Fields(sars)[i], IsTensor(sars, Fields(sars)[i]),
                              GetField(sars, Fields(sars)[i]))],
     device |-> sars.device]

\* th.load of one Transition: the object whose __dict__ is the pickled one.
UnpickleTransition(pickled) ==
    LET attr(name) == pickled.attrs[CHOOSE i \in 1..Len(pickled.names) :
                                        pickled.names[i] = name]
    IN  Transition(attr("state").value, attr("done").value,
                   [k \in 1..(Len(pickled.names) - 5) |-> attr(pickled.names[k + 5])],
                   pickled.device)

\* save, line 264: th.save(self._storage, path) writes the list of Transitions.
Saved(self) ==
    [exists |-> TRUE,
     data |-> [i \in 1..Len(self.storage) |-> PickleTransition(self.storage[i])],
     saved |-> self.storage]

\* load, line 281: th.load raises when there is no file at path.
LoadRaises(file) == ~file.exists

\* load joining the loaded Transitions to the ones of the receiver.
LoadAppending(self, file) ==
    [self EXCEPT !.storage =
        @ \o [i \in 1..Len(file.data) |-> UnpickleTransition(file.data[i])]]

\* load, line 281: self._storage = th.load(path).
Load(self, file) ==
    [self EXCEPT !.storage =
        [i \in 1..Len(file.data) |-> UnpickleTransition(file.data[i])]]

\* ------------------------------------------------------------------- empty
\* empty, line 407.
Emptied(self) == [self EXCEPT !.storage = <<>>]

\* ---------------------------------------------------------------------- to
\* to, lines 473-475.
To(self, device) ==
    ExperienceReplay([i \in 1..Len(self.storage) |-> TransitionTo(self.storage[i], device)],
                     device, self.vectorized)

\* ----------------------------------------------------------------- flatten
\* flatten, lines 433-437: entry i of one value of infos; a tensor gets its
\* leading axis back, any other value is kept as indexed.
FlattenInfo(info, i) ==
    IF info.tensor THEN Info(info.name, TRUE, <<info.value[i]>>) ELSE info

\* The Transitions of one vectorized Transition with its environments in
\* reverse.
FlattenOneReversed(sars) ==
    [i \in 1..Len(sars.done) |->
        Transition(<<sars.state[Len(sars.done) + 1 - i]>>,
                   <<sars.done[Len(sars.done) + 1 - i]>>,
                   [k \in 1..Len(sars.infos) |->
                        FlattenInfo(sars.infos[k], Len(sars.done) + 1 - i)],
                   "none")]

\* flatten, lines 432-438: the single-environment Transitions of one
\* vectorized Transition, environment by environment; flat_replay.append
\* gives each the device of flat_replay, which is None.
FlattenOne(sars) ==
    [i \in 1..Len(sars.done) |->
        Transition(<<sars.state[i]>>, <<sars.done[i]>>,
                   [k \in 1..Len(sars.infos) |-> FlattenInfo(sars.infos[k], i)],
                   "none")]

RECURSIVE FlattenStorage(_)
\* flatten, lines 431-438: the outer loop over self._storage.
FlattenStorage(storage) ==
    IF storage = <<>> THEN <<>>
    ELSE FlattenOne(Head(storage)) \o FlattenStorage(Tail(storage))

\* flatten, lines 430-439: the replay built for a vectorized receiver.
Flatten(self) == ExperienceReplay(FlattenStorage(self.storage), "none", FALSE)

\* -------------------------------------------------------- _access_property
\* The names asked of replay.<name>().
PropertyNames == {"state", "done"} \cup InfoNames

\* _access_property, line 197: the values of the attribute, in storage order.
Values(self, name) == [i \in 1..Len(self.storage) |-> GetField(self.storage[i], name)]

RECURSIVE Cat(_)
\* th.cat(values, dim=0): the values joined along their leading axis.
Cat(values) == IF values = <<>> THEN <<>> ELSE Head(values) \o Cat(Tail(values))

\* _access_property, lines 196-202: getattr raises for a Transition without
\* the field, values[0] raises on an empty replay, th.cat raises for values
\* that are no tensors, and the view to (len(values), *true_size) raises
\* unless the joined tensor has len(values) times the entries of values[0].
AccessRaises(self, name) ==
    \/ \E i \in 1..Len(self.storage) : ~HasField(self.storage[i], name)
    \/ self.storage = <<>>
    \/ \E i \in 1..Len(self.storage) : ~IsTensor(self.storage[i], name)
    \/ Len(Cat(Values(self, name))) # Len(self.storage) * Len(Values(self, name)[1])

\* _access_property, line 202: the joined tensor viewed as len(values)
\* entries of the size of values[0].
AccessBatch(self, name) ==
    LET values == Values(self, name)
        true_size == Len(values[1])
    IN  [i \in 1..Len(values) |->
            SubSeq(Cat(values), (i - 1) * true_size + 1, i * true_size)]

\* ------------------------------------------------------------------ sample
\* random.randint(a, b): the values it can return; it raises when a > b.
RandInt(a, b) == a..b

\* What the index selection of sample comes to: the indices, or an exception;
\* depth counts the calls of sample nested inside the call.
Raised == [ok |-> FALSE, indices |-> <<>>, depth |-> 0]
Picked(indices) == [ok |-> TRUE, indices |-> indices, depth |-> 0]

\* The outcome of a call of sample made from inside sample.
Nested(choice) == [choice EXCEPT !.depth = @ + 1]

\* The larger of two depths.
Deepest(m, n) == IF m >= n THEN m ELSE n

\* end_idx when the loop of lines 369-374 ends without assigning it.
Unassigned == -1

\* self.done() of a replay of single-step Transitions, lines 364 and 368.
Dones(storage) == [i \in 1..Len(storage) |-> storage[i].done[1]]

\* sample, line 364: self.done().sum()
NumEpisodes(dones) == Cardinality({i \in 1..Len(dones) : dones[i]})

RECURSIVE FindEndIdxLate(_, _, _, _)
\* The scan of lines 369-374 with count > end for its test.
FindEndIdxLate(dones, idx, count, end) ==
    IF idx < 0 THEN Unassigned
    ELSE IF dones[idx + 1]
         THEN IF count > end THEN idx
              ELSE FindEndIdxLate(dones, idx - 1, count + 1, end)
         ELSE FindEndIdxLate(dones, idx - 1, count, end)

RECURSIVE FindEndIdx(_, _, _, _)
\* sample, lines 369-374: the backward scan from idx for the done Transition
\* that has `end` done Transitions after it.
FindEndIdx(dones, idx, count, end) ==
    IF idx < 0 THEN Unassigned
    ELSE IF dones[idx + 1]
         THEN IF count >= end THEN idx
              ELSE FindEndIdx(dones, idx - 1, count + 1, end)
         ELSE FindEndIdx(dones, idx - 1, count, end)

RECURSIVE FillIndicesPast(_, _, _, _, _)
\* The scan of lines 378-383 stopping one done Transition too late.
FillIndicesPast(dones, idx, count, size, indices) ==
    IF idx < 0 THEN indices
    ELSE IF dones[idx + 1]
         THEN IF count + 1 > size THEN indices
              ELSE FillIndicesPast(dones, idx - 1, count + 1, size, <<idx>> \o indices)
         ELSE FillIndicesPast(dones, idx - 1, count, size, <<idx>> \o indices)

RECURSIVE FillIndicesWrapping(_, _, _, _, _)
\* The scan of lines 378-383 running one index past the front of the list.
FillIndicesWrapping(dones, idx, count, size, indices) ==
    IF idx < -1 THEN indices
    ELSE IF idx >= 0 /\ dones[idx + 1]
         THEN IF count + 1 >= size THEN indices
              ELSE FillIndicesWrapping(dones, idx - 1, count + 1, size, <<idx>> \o indices)
         ELSE FillIndicesWrapping(dones, idx - 1, count, size, <<idx>> \o indices)

RECURSIVE FillIndices(_, _, _, _, _)
\* sample, lines 378-383: the backward scan from idx below end_idx, which
\* stops at the size-th done Transition it meets.
FillIndices(dones, idx, count, size, indices) ==
    IF idx < 0 THEN indices
    ELSE IF dones[idx + 1]
         THEN IF count + 1 >= size THEN indices
              ELSE FillIndices(dones, idx - 1, count + 1, size, <<idx>> \o indices)
         ELSE FillIndices(dones, idx - 1, count, size, <<idx>> \o indices)

\* The scan for the `end` drawn, with indices starting empty instead of at
\* [end_idx].
ScanEpisodesWithoutEnd(dones, size, end) ==
    LET end_idx == FindEndIdx(dones, Len(dones) - 1, 0, end)
    IN  IF end_idx = Unassigned THEN Raised
        ELSE Picked(FillIndices(dones, end_idx - 1, 0, size, <<>>))

\* sample, lines 366-383, for the `end` drawn at line 365; line 376 raises
\* when end_idx was never assigned.
ScanEpisodes(dones, size, end) ==
    LET end_idx == FindEndIdx(dones, Len(dones) - 1, 0, end)
    IN  IF end_idx = Unassigned THEN Raised
        ELSE Picked(FillIndices(dones, end_idx - 1, 0, size, <<end_idx>>))

\* The range of `end` with no regard to size.
EndRangeIgnoringSize(size, num_episodes) == RandInt(0, num_episodes - 1)

\* The range line 365 draws `end` from.
EndRange(size, num_episodes) == RandInt(size - 1, num_episodes - size)

\* sample, lines 364-383: every outcome of the else branch.
EpisodeChoices(dones, size) ==
    IF EndRange(size, NumEpisodes(dones)) = {} THEN {Raised}
    ELSE {ScanEpisodes(dones, size, end) : end \in EndRange(size, NumEpisodes(dones))}

RECURSIVE ConcatPicked(_, _)
\* sum(..., replay) of line 362 over the first k samples of f: their indices
\* one sample after the other, or the exception of the first that raised.
ConcatPicked(f, k) ==
    IF k = 0 THEN Picked(<<>>)
    ELSE LET before == ConcatPicked(f, k - 1)
             depth == Deepest(before.depth, f[k].depth)
         IN  IF before.ok /\ f[k].ok
             THEN [Picked(before.indices \o f[k].indices) EXCEPT !.depth = depth]
             ELSE [Raised EXCEPT !.depth = depth]

RECURSIVE SampleChoices(_, _, _, _)
\* sample, lines 360-362: size independent calls of self.sample(1, episodes=True),
\* each one a call of sample with contiguous at its default.
RepeatedEpisodeChoices(self, size) ==
    {ConcatPicked(f, size) :
        f \in [1..size -> {Nested(choice) : choice \in SampleChoices(self, 1, FALSE, TRUE)}]}

\* The range of `start` that lets a run end on the last Transition.
StartRangeToLast(length, size) == RandInt(0, length - size + 1)

\* The range line 387 draws `start` from.
StartRange(length, size) == RandInt(0, length - size)

\* Transition-level sampling with length = len(self).
TransitionChoicesWide(n, size, contiguous) ==
    LET length == n
    IN  IF contiguous
        THEN IF StartRange(length, size) = {} THEN {Raised}
             ELSE {Picked([i \in 1..size |-> start + i - 1]) :
                        start \in StartRange(length, size)}
        ELSE {Picked(f) : f \in [1..size -> RandInt(0, length)]}

\* sample, lines 385-390: every outcome of transition-level sampling.
TransitionChoices(n, size, contiguous) ==
    LET length == n - 1
    IN  IF contiguous
        THEN IF StartRange(length, size) = {} THEN {Raised}
             ELSE {Picked([i \in 1..size |-> start + i - 1]) :
                        start \in StartRange(length, size)}
        ELSE IF RandInt(0, length) = {} THEN {Raised}
             ELSE {Picked(f) : f \in [1..size -> RandInt(0, length)]}

\* sample, lines 357-390, on a replay that is not empty and for size >= 1:
\* every outcome of the index selection.  Line 359 asserts; self.done()
\* raises as _access_property does, and bool(d) of lines 370 and 379 raises
\* for a done of more than one entry.
SampleChoices(self, size, contiguous, episodes) ==
    IF episodes
    THEN IF self.vectorized THEN {Raised}
         ELSE IF \E i \in 1..Len(self.storage) : Len(self.storage[i].done) # 1
              THEN {Raised}
         ELSE IF size > 1 /\ ~contiguous
              THEN RepeatedEpisodeChoices(self, size)
              ELSE EpisodeChoices(Dones(self.storage), size)
    ELSE TransitionChoices(Len(self.storage), size, contiguous)

\* self[idx] of line 393 raises for an index outside -len .. len-1.
InRange(storage, idx) == -Len(storage) <= idx /\ idx < Len(storage)

\* self[idx] of line 393: a negative index counts from the end.
GetItem(storage, idx) ==
    IF idx < 0 THEN storage[Len(storage) + idx + 1] ELSE At(storage, idx)

\* sample, lines 392-394: the replay built from the indices; it carries the
\* receiver's vectorized flag and no device.
Materialize(self, indices) ==
    ExperienceReplay([i \in 1..Len(indices) |-> GetItem(self.storage, indices[i])],
                     "none", self.vectorized)

\* sample, line 354 with only its test of size.
SampleEmptySizeOnly(self, size) == size < 1

\* sample, line 354: the test of the early return.
SampleEmpty(self, size) == BufLen(self) < 1 \/ size < 1

\* sample, line 355: the replay of the early return.
SampleEmptyReturn(self) == ExperienceReplay(<<>>, "none", self.vectorized)

\* What sample returns for one outcome of the index selection.
SampleReturn(self, choice) ==
    IF ~choice.ok THEN Returned("raise", NoReplay)
    ELSE IF \E i \in 1..Len(choice.indices) : ~InRange(self.storage, choice.indices[i])
         THEN Returned("raise", NoReplay)
    ELSE Returned("new", Materialize(self, choice.indices))

\* ----------------------------------------------------------------- actions
NoArgs(op, b) == Call(op, b, b, 0, FALSE, FALSE)

\* append storing the Transition before the reshape that can raise.
CallAppendEager(b, state, done, infos) ==
    /\ BufLen(replay[b]) < Capacity(b)
    /\ call' = NoArgs("append", b)
    /\ replay' = [replay EXCEPT ![b] = AppendTo(@, state, done, infos)]
    /\ appended' = [appended EXCEPT ![b] = @ + 1]
    /\ ret' = IF AppendRaises(replay[b], state, done) THEN Returned("raise", NoReplay)
              ELSE Returned("none", NoReplay)

\* replay[b].append(state, ..., done, **infos)
CallAppend(b, state, done, infos) ==
    /\ BufLen(replay[b]) < Capacity(b)
    /\ call' = NoArgs("append", b)
    /\ IF AppendRaises(replay[b], state, done)
       THEN /\ ret' = Returned("raise", NoReplay)
            /\ UNCHANGED <<replay, appended>>
       ELSE /\ replay' = [replay EXCEPT ![b] = AppendTo(@, state, done, infos)]
            /\ appended' = [appended EXCEPT ![b] = @ + 1]
            /\ ret' = Returned("none", NoReplay)

\* replay[b].empty()
CallEmpty(b) ==
    /\ replay' = [replay EXCEPT ![b] = Emptied(@)]
    /\ call' = NoArgs("empty", b)
    /\ ret' = Returned("none", NoReplay)
    /\ appended' = [appended EXCEPT ![b] = 0]

\* replay[b] + replay[o]
CallAdd(b, o) ==
    /\ call' = Call("add", b, o, 0, FALSE, FALSE)
    /\ ret' = IF AddRaises(replay[b], replay[o]) THEN Returned("raise", NoReplay)
              ELSE Returned("new", Add(replay[b], replay[o]))
    /\ UNCHANGED <<replay, appended>>

\* replay[b] += replay[o]
CallIAdd(b, o) ==
    /\ BufLen(replay[b]) + BufLen(replay[o]) <= Capacity(b)
    /\ call' = Call("iadd", b, o, 0, FALSE, FALSE)
    /\ IF IAddRaises(replay[b], replay[o])
       THEN /\ ret' = Returned("raise", NoReplay)
            /\ UNCHANGED replay
       ELSE /\ replay' = [replay EXCEPT ![b] = IAdd(@, replay[o])]
            /\ ret' = Returned("self", NoReplay)
    /\ UNCHANGED appended

\* A slice that hands out the receiver itself when it covers all of it.
CallGetSliceShared(b, lo, hi) ==
    /\ call' = NoArgs("slice", b)
    /\ ret' = IF lo = 0 /\ hi >= BufLen(replay[b]) THEN Returned("self", NoReplay)
              ELSE Returned("new", GetSlice(replay[b], lo, hi))
    /\ UNCHANGED <<replay, appended>>

\* replay[b][lo:hi]
CallGetSlice(b, lo, hi) ==
    /\ call' = NoArgs("slice", b)
    /\ ret' = Returned("new", GetSlice(replay[b], lo, hi))
    /\ UNCHANGED <<replay, appended>>

\* to() moving the Transitions of the receiver itself, as its docstring has
\* it (lines 452-455).
CallToInPlace(b, device) ==
    /\ call' = [NoArgs("to", b) EXCEPT !.device = device]
    /\ ret' = Returned("new", To(replay[b], device))
    /\ replay' = [replay EXCEPT ![b] = To(replay[b], device)]
    /\ UNCHANGED appended

\* replay[b].to(device); device is "none" when only a dtype is given.
CallTo(b, device) ==
    /\ call' = [NoArgs("to", b) EXCEPT !.device = device]
    /\ ret' = Returned("new", To(replay[b], device))
    /\ UNCHANGED <<replay, appended>>

\* replay[b].flatten(), lines 428-429 and 430-439
CallFlatten(b) ==
    /\ call' = NoArgs("flatten", b)
    /\ ret' = IF ~replay[b].vectorized THEN Returned("self", NoReplay)
              ELSE Returned("new", Flatten(replay[b]))
    /\ UNCHANGED <<replay, appended>>

\* replay[b].save(path)
CallSave(b, path) ==
    /\ call' = NoArgs("save", b)
    /\ disk' = [disk EXCEPT ![path] = Saved(replay[b])]
    /\ ret' = Returned("none", NoReplay)
    /\ UNCHANGED <<replay, appended, produced>>

\* replay[b].load(path); the loaded Transitions count as that many appends,
\* so that the next append is numbered after them.
CallLoad(b, path) ==
    /\ call' = NoArgs("load", b)
    /\ IF LoadRaises(disk[path])
       THEN /\ ret' = Returned("raise", NoReplay)
            /\ UNCHANGED <<replay, appended>>
       ELSE /\ ret' = Returned("none", NoReplay)
            /\ replay' = [replay EXCEPT ![b] = Load(replay[b], disk[path])]
            /\ appended' = [appended EXCEPT ![b] = Len(disk[path].data)]
    /\ UNCHANGED <<disk, produced>>

\* replay[b].<name>()
CallAccessProperty(b, name) ==
    /\ call' = NoArgs(name, b)
    /\ ret' = IF AccessRaises(replay[b], name) THEN Returned("raise", NoReplay)
              ELSE ReturnedBatch(AccessBatch(replay[b], name))
    /\ UNCHANGED <<replay, appended>>

\* sample taking the last Transition out of the receiver.
CallSampleConsuming(b, size, contiguous, episodes) ==
    /\ IF SampleEmpty(replay[b], size)
       THEN /\ ret' = Returned("new", SampleEmptyReturn(replay[b]))
            /\ replay' = replay
       ELSE /\ \E choice \in SampleChoices(replay[b], size, contiguous, episodes) :
                    ret' = SampleReturn(replay[b], choice)
            /\ replay' = [replay EXCEPT ![b].storage = SubSeq(@, 1, Len(@) - 1)]
    /\ call' = Call("sample", b, b, size, contiguous, episodes)
    /\ UNCHANGED appended

\* replay[b].sample(size, contiguous, episodes)
CallSample(b, size, contiguous, episodes) ==
    /\ IF SampleEmpty(replay[b], size)
       THEN ret' = Returned("new", SampleEmptyReturn(replay[b]))
       ELSE \E choice \in SampleChoices(replay[b], size, contiguous, episodes) :
                ret' = SampleReturn(replay[b], choice)
    /\ call' = Call("sample", b, b, size, contiguous, episodes)
    /\ UNCHANGED <<replay, appended>>

\* A call that writes no file and whose return value no caller keeps.
Plain == UNCHANGED <<disk, produced>>

\* The calls that leave every storage list as it is, or append to it or
\* replace it: all but the in-place extension.
Calls ==
    \/ \E b \in Bufs : \E done \in DoneInputs(replay[b].vectorized) :
            /\ CallAppend(b, StateInput(replay[b].vectorized, appended[b] + 1), done, <<>>)
            /\ Plain
    \/ \E b \in Bufs : CallEmpty(b) /\ Plain
    \/ \E b, o \in Bufs : CallAdd(b, o) /\ Plain
    \/ \E b \in Bufs : \E lo, hi \in 0..MaxLen : CallGetSlice(b, lo, hi) /\ Plain
    \/ \E b \in Bufs : \E device \in Devices \ {"none"} : CallTo(b, device) /\ Plain
    \/ \E b \in Bufs : CallFlatten(b) /\ Plain
    \/ \E b \in Bufs : \E name \in PropertyNames : CallAccessProperty(b, name) /\ Plain
    \/ \E b \in Bufs : \E size \in Sizes : \E contiguous, episodes \in BOOLEAN :
            CallSample(b, size, contiguous, episodes) /\ Plain

Next == Calls

Spec == Init /\ [][Next]_vars

\* The calls that build or join storage lists, the in-place extension among
\* them.
NextExtend ==
    \/ \E b \in Bufs : \E done \in DoneInputs(replay[b].vectorized) :
            /\ CallAppend(b, StateInput(replay[b].vectorized, appended[b] + 1), done, <<>>)
            /\ Plain
    \/ \E b \in Bufs : CallEmpty(b) /\ Plain
    \/ \E b, o \in Bufs : CallAdd(b, o) /\ Plain
    \/ \E b, o \in Bufs : CallIAdd(b, o) /\ Plain

SpecExtend == Init /\ [][NextExtend]_vars

\* The calls that write and read the files, and the ones that fill and clear
\* the replays in between.  Replay 2 is the one that saves; both load.
NextPersist ==
    \/ \E b \in Bufs : \E done \in DoneInputs(replay[b].vectorized) :
            /\ CallAppend(b, StateInput(replay[b].vectorized, appended[b] + 1), done, <<>>)
            /\ UNCHANGED <<disk, produced>>
    \/ \E b \in Bufs : CallEmpty(b) /\ UNCHANGED <<disk, produced>>
    \/ \E path \in Paths : CallSave(2, path)
    \/ \E b \in Bufs : \E path \in Paths : CallLoad(b, path)

SpecPersist == Init /\ [][NextPersist]_vars

\* ------------------------------------------------- the replay a caller keeps
\* kept = <the call on replay b>: the caller keeps what the call returned, a
\* replay built by the call or the receiver itself; nothing when it raised.
Keep(b) ==
    produced' = IF ret'.kind = "new"
                THEN [buf |-> ret'.buf, from |-> b, op |-> call'.op, same |-> FALSE]
                ELSE IF ret'.kind = "self"
                THEN [buf |-> replay'[b], from |-> b, op |-> call'.op, same |-> TRUE]
                ELSE produced

\* A call that changed replay b is seen through the kept replay when that
\* is the same object.
Follow(b) ==
    produced' = IF produced.same /\ produced.from = b
                THEN [produced EXCEPT !.buf = replay'[b]]
                ELSE produced

\* The receiver of a call made on the kept replay.
KeptReplay == 0
\* The number of Transitions the kept replay may grow to by append and +=.
KeptCapacity == 2

\* The kept replay is an object of its own; when it is replay b itself, the
\* calls on it are the calls on replay b.
KeptApart == produced.from # 0 /\ ~produced.same

\* kept.append(state, ..., done)
KeptAppend(state, done) ==
    /\ KeptApart /\ BufLen(produced.buf) < KeptCapacity
    /\ call' = NoArgs("append", KeptReplay)
    /\ IF AppendRaises(produced.buf, state, done)
       THEN /\ ret' = Returned("raise", NoReplay)
            /\ UNCHANGED produced
       ELSE /\ ret' = Returned("none", NoReplay)
            /\ produced' = [produced EXCEPT !.buf = AppendTo(@, state, done, <<>>)]
    /\ UNCHANGED <<replay, appended, disk>>

\* kept.empty()
KeptEmpty ==
    /\ KeptApart
    /\ call' = NoArgs("empty", KeptReplay)
    /\ ret' = Returned("none", NoReplay)
    /\ produced' = [produced EXCEPT !.buf = Emptied(@)]
    /\ UNCHANGED <<replay, appended, disk>>

\* kept += replay[o]
KeptIAdd(o) ==
    /\ KeptApart /\ BufLen(produced.buf) + BufLen(replay[o]) <= KeptCapacity
    /\ call' = Call("iadd", KeptReplay, o, 0, FALSE, FALSE)
    /\ ret' = Returned("self", NoReplay)
    /\ produced' = [produced EXCEPT !.buf = IAdd(@, replay[o])]
    /\ UNCHANGED <<replay, appended, disk>>

\* Replay 2 is filled, emptied and extended by replay 1, which holds at most
\* one Transition; a caller keeps the replay a call on replay 2 returned, and
\* appends to, empties and extends the kept one.
NextKeep ==
    \/ \E done \in DoneInputs(replay[2].vectorized) :
            /\ CallAppend(2, StateInput(replay[2].vectorized, appended[2] + 1), done, <<>>)
            /\ Follow(2) /\ UNCHANGED disk
    \/ /\ BufLen(replay[1]) = 0
       /\ CallAppend(1, StateInput(replay[1].vectorized, 1),
                     [e \in 1..Len(StateInput(replay[1].vectorized, 1)) |-> FALSE], <<>>)
       /\ UNCHANGED <<disk, produced>>
    \/ CallEmpty(2) /\ Follow(2) /\ UNCHANGED disk
    \/ CallIAdd(2, 1) /\ Follow(2) /\ UNCHANGED disk
    \/ \E lo, hi \in 0..Capacity(2) : CallGetSlice(2, lo, hi) /\ Keep(2) /\ UNCHANGED disk
    \/ \E size \in Sizes : \E contiguous, episodes \in BOOLEAN :
            CallSample(2, size, contiguous, episodes) /\ Keep(2) /\ UNCHANGED disk
    \/ \E o \in Bufs : CallAdd(2, o) /\ Keep(2) /\ UNCHANGED disk
    \/ \E device \in Devices \ {"none"} : CallTo(2, device) /\ Keep(2) /\ UNCHANGED disk
    \/ CallFlatten(2) /\ Keep(2) /\ UNCHANGED disk
    \/ KeptAppend(StateInput(produced.buf.vectorized, BufLen(produced.buf) + 1),
                  [e \in 1..Len(StateInput(produced.buf.vectorized, 1)) |-> FALSE])
    \/ KeptEmpty
    \/ \E o \in Bufs : KeptIAdd(o)

SpecKeep == Init /\ [][NextKeep]_vars

\* The calls on replay 1 whose outcome depends on the fields the Transitions
\* carry.
NextFields ==
    \/ \E done \in DoneInputs(replay[1].vectorized) :
       \E infos \in InfoInputs(replay[1].vectorized, appended[1] + 1) :
            /\ CallAppend(1, StateInput(replay[1].vectorized, appended[1] + 1), done, infos)
            /\ UNCHANGED <<disk, produced>>
    \/ CallEmpty(1) /\ UNCHANGED <<disk, produced>>
    \/ \E device \in Devices : CallTo(1, device) /\ UNCHANGED <<disk, produced>>
    \/ \E name \in PropertyNames : CallAccessProperty(1, name) /\ UNCHANGED <<disk, produced>>

SpecFields == Init /\ [][NextFields]_vars

\* ------------------------------------------------------------------ claims
\* The receiver of the last call, and what a sample call was asked.
Source == replay[call.self]
SourceLen == BufLen(Source)
Sampled(contiguous, episodes) ==
    call.op = "sample" /\ call.contiguous = contiguous /\ call.episodes = episodes

\* C1: whatever append, empty, sample, slice, +, to and flatten calls were
\* made, the length of a replay is the number of successful append calls made
\* on it since its last empty() (or since it was created empty); so sample,
\* slice, +, to and flatten leave the length of their receiver as it was.
C1_LenIsAppendCount ==
    \A b \in Bufs : BufLen(replay[b]) = appended[b]

\* C1 witness: a vectorized replay 1 that is full, after a flatten returned
\* a new replay.
C1_Witness ==
    /\ call.op = "flatten" /\ call.self = 1 /\ ret.kind = "new"
    /\ appended[1] = MaxLen /\ BufLen(replay[1]) = MaxLen

\* C2: sample(size=k, contiguous=False, episodes=False) of a replay of
\* n >= 1 Transitions, 1 <= k <= n, returns a replay of exactly k
\* Transitions, each of them stored at some index 0 .. n-1 of the receiver;
\* and every index of the receiver can be the one drawn.
C2_RandomSample ==
    /\ (Sampled(FALSE, FALSE) /\ 1 <= call.size /\ call.size <= SourceLen)
        => /\ ret.kind = "new"
           /\ Len(ret.buf.storage) = call.size
           /\ \A i \in 1..Len(ret.buf.storage) :
                \E idx \in 0..(SourceLen - 1) :
                    ret.buf.storage[i] = At(Source.storage, idx)
    /\ \A b \in Bufs : \A idx \in 0..(BufLen(replay[b]) - 1) :
            ENABLED (/\ CallSample(b, 1, FALSE, FALSE)
                     /\ ret'.buf.storage = <<At(replay[b].storage, idx)>>)

\* C2 witness: two draws from a replay of three Transitions that took the
\* last Transition first and the first one second.
C2_Witness ==
    /\ Sampled(FALSE, FALSE) /\ call.size = 2 /\ SourceLen = 3
    /\ ret.kind = "new"
    /\ ret.buf.storage = <<At(Source.storage, 2), At(Source.storage, 0)>>

\* C3 (as claimed): sample(size=k, contiguous=True, episodes=False) of a
\* replay of n >= 1 Transitions, 1 <= k <= n, returns the k Transitions of
\* a run of consecutive indices of the receiver, in increasing order.
C3_Claim ==
    (Sampled(TRUE, FALSE) /\ 1 <= call.size /\ call.size <= SourceLen)
        => /\ ret.kind = "new"
           /\ \E start \in 0..(SourceLen - call.size) :
                ret.buf.storage = SubSeq(Source.storage, start + 1, start + call.size)

\* bool(d) of a single-step Transition.
IsDone(sars) == sars.done[1]

\* C4: sample(size=1, episodes=True) of a replay that is not vectorized and
\* holds a done Transition returns the Transitions of one index range a .. b
\* in order, where b is done, none of a .. b-1 is done, and a is 0 or a-1 is
\* done: one completed episode, and nothing after the last done Transition.
C4_SingleEpisode ==
    (/\ call.op = "sample" /\ call.episodes /\ call.size = 1
     /\ ~Source.vectorized
     /\ \E i \in 1..SourceLen : IsDone(Source.storage[i]))
        => /\ ret.kind = "new"
           /\ \E a, b \in 0..(SourceLen - 1) :
                /\ a <= b
                /\ ret.buf.storage = SubSeq(Source.storage, a + 1, b + 1)
                /\ IsDone(At(Source.storage, b))
                /\ \A i \in a..(b - 1) : ~IsDone(At(Source.storage, i))
                /\ a = 0 \/ IsDone(At(Source.storage, a - 1))

\* C4 witness: the second episode, of one Transition, of a replay whose
\* dones are True, True, False.
C4_Witness ==
    /\ call.op = "sample" /\ call.episodes /\ call.size = 1
    /\ ~Source.vectorized
    /\ Dones(Source.storage) = <<TRUE, TRUE, FALSE>>
    /\ ret.kind = "new"
    /\ ret.buf.storage = <<At(Source.storage, 1)>>

\* C5: sample leaves its receiver as it was (Transitions and their order,
\* vectorized flag, device), whatever its arguments and whether it returns
\* or raises; and the other replay too.
C5_SampleKeepsSource ==
    [][call'.op = "sample" => replay' = replay]_vars

\* C5 witness: a sample of two of the three Transitions of a replay that
\* still holds the three.
C5_Witness ==
    /\ call.op = "sample" /\ call.size = 2 /\ ret.kind = "new"
    /\ Len(ret.buf.storage) = 2
    /\ SourceLen = 3 /\ appended[call.self] = 3

\* C6: sample of an empty replay, or with size < 1, returns an empty replay
\* with the receiver's vectorized flag and does not raise, whatever
\* contiguous and episodes are.
C6_EmptyResult ==
    (call.op = "sample" /\ (SourceLen = 0 \/ call.size < 1))
        => /\ ret.kind = "new"
           /\ Len(ret.buf.storage) = 0
           /\ ret.buf.vectorized = Source.vectorized

\* C6 witness: episodes=True asked of an empty vectorized replay.
C6_Witness ==
    /\ call.op = "sample" /\ call.episodes /\ call.size = 1
    /\ Source.vectorized /\ SourceLen = 0
    /\ ret.kind = "new" /\ ret.buf.vectorized

\* C7: a + b raises when the vectorized flags differ; otherwise it returns a
\* new replay of a's Transitions followed by b's, with a's vectorized flag
\* and device; either way a and b are left as they were.
C7_Concat ==
    [][call'.op = "add" =>
        LET a == replay[call'.self]
            b == replay[call'.other]
        IN  /\ replay' = replay
            /\ IF a.vectorized # b.vectorized THEN ret'.kind = "raise"
               ELSE /\ ret'.kind = "new"
                    /\ Len(ret'.buf.storage) = BufLen(a) + BufLen(b)
                    /\ SubSeq(ret'.buf.storage, 1, BufLen(a)) = a.storage
                    /\ SubSeq(ret'.buf.storage, BufLen(a) + 1, BufLen(a) + BufLen(b))
                            = b.storage
                    /\ ret'.buf.vectorized = a.vectorized
                    /\ ret'.buf.device = a.device]_vars

\* C7 witness: replay 1 + replay 2, both full, of different devices.
C7_Witness ==
    /\ call.op = "add" /\ call.self = 1 /\ call.other = 2
    /\ BufLen(replay[1]) = MaxLen /\ BufLen(replay[2]) = MaxOther
    /\ replay[1].device # replay[2].device
    /\ ret.kind = "new" /\ Len(ret.buf.storage) = MaxLen + MaxOther

\* C8 (as claimed): a += b raises when the vectorized flags differ (here for
\* a b that holds a Transition), so no
\* replay holds a Transition appended under the other vectorized flag (a
\* batch over NumEnvs environments in a plain replay, or a single step in a
\* vectorized one).
C8_Claim ==
    /\ (/\ call.op = "iadd"
        /\ Source.vectorized # replay[call.other].vectorized
        /\ BufLen(replay[call.other]) >= 1)
            => ret.kind = "raise"
    /\ \A b \in Bufs : \A i \in 1..BufLen(replay[b]) :
            Len(replay[b].storage[i].done) = IF replay[b].vectorized THEN NumEnvs ELSE 1

\* What C9 is about: a sample call on a replay that is not empty, size >= 1.
SampleAsked == call.op = "sample" /\ SourceLen >= 1 /\ call.size >= 1

SourceEpisodes == NumEpisodes(Dones(Source.storage))

\* The done Transitions of a list of single-step Transitions.
DoneCount(storage) == Cardinality({i \in 1..Len(storage) : IsDone(storage[i])})

\* C9 (as claimed): contiguous transition sampling with a size above the
\* number of Transitions, and episode sampling, contiguous or not, with a
\* size above the number of completed episodes, raises.
C9_Claim ==
    (/\ SampleAsked
     /\ \/ ~call.episodes /\ call.contiguous /\ call.size > SourceLen
        \/ call.episodes /\ ~Source.vectorized /\ call.size > SourceEpisodes)
        => ret.kind = "raise"

\* C9 (amended): contiguous transition sampling with a size above the number
\* of Transitions raises; episode sampling with contiguous=True or size 1
\* raises when size is above the number of completed episodes; episode
\* sampling raises when no episode is completed; but episode sampling with
\* contiguous=False and size > 1 returns, whenever an episode is completed,
\* size episodes drawn with replacement, however few episodes there are.
C9_Exhausted ==
    SampleAsked =>
        /\ (~call.episodes /\ call.contiguous /\ call.size > SourceLen)
                => ret.kind = "raise"
        /\ (/\ call.episodes /\ ~Source.vectorized
            /\ call.contiguous \/ call.size = 1
            /\ call.size > SourceEpisodes)
                => ret.kind = "raise"
        /\ (call.episodes /\ ~Source.vectorized /\ SourceEpisodes = 0)
                => ret.kind = "raise"
        /\ (/\ call.episodes /\ ~Source.vectorized
            /\ ~call.contiguous /\ call.size > 1
            /\ SourceEpisodes >= 1)
                => /\ ret.kind = "new"
                   /\ DoneCount(ret.buf.storage) = call.size

\* C9 witness: two contiguous episodes asked of a replay with one completed
\* episode.
C9_Witness ==
    /\ SampleAsked /\ call.episodes /\ call.contiguous /\ call.size = 2
    /\ ~Source.vectorized /\ SourceEpisodes = 1 /\ SourceLen = 3
    /\ ret.kind = "raise"

\* C10: a call that raises (+ on mismatched vectorized flags, episode
\* sampling of a vectorized replay, sampling with a size that cannot be met,
\* replay.<name>() on an empty replay or for a missing field, an append whose
\* reshape fails) leaves every replay as it was.
C10_RaiseKeepsReplay ==
    [][ret'.kind = "raise" => replay' = replay]_vars

\* C10 witness: an append that raised on a vectorized replay holding a
\* Transition.
C10_Witness ==
    /\ call.op = "append" /\ ret.kind = "raise"
    /\ Source.vectorized /\ SourceLen = 1 /\ appended[call.self] = 1

\* C11: flatten() on a replay that is not vectorized returns the receiver
\* itself; on a vectorized replay of T Transitions of NumEnvs environments
\* it returns a new replay, not vectorized, of NumEnvs * T Transitions whose
\* Python index t * NumEnvs + e holds environment e of Transition t; the
\* receiver is left as it was.
C11_Flatten ==
    [][call'.op = "flatten" =>
        /\ replay' = replay
        /\ IF ~replay[call'.self].vectorized THEN ret'.kind = "self"
           ELSE /\ ret'.kind = "new"
                /\ ~ret'.buf.vectorized
                /\ BufLen(ret'.buf) = NumEnvs * BufLen(replay[call'.self])
                /\ \A t \in 0..(BufLen(replay[call'.self]) - 1) : \A e \in 0..(NumEnvs - 1) :
                        LET flat == At(ret'.buf.storage, t * NumEnvs + e)
                            sars == At(replay[call'.self].storage, t)
                        IN  /\ flat.state = <<sars.state[e + 1]>>
                            /\ flat.done = <<sars.done[e + 1]>>]_vars

\* C11 witness: a vectorized replay of two Transitions was flattened into
\* four, the second of them done.
C11_Witness ==
    /\ call.op = "flatten" /\ Source.vectorized /\ SourceLen = 2
    /\ ret.kind = "new" /\ BufLen(ret.buf) = 2 * NumEnvs
    /\ Source.storage[1].done[NumEnvs] /\ ret.buf.storage[NumEnvs].done = <<TRUE>>

C14_Claim ==
    call.op \in PropertyNames =>
        IF SourceLen = 0 \/ \E i \in 1..SourceLen : ~HasField(Source.storage[i], call.op)
        THEN ret.kind = "raise"
        ELSE /\ ret.kind = "value"
             /\ Len(ret.batch) = SourceLen
             /\ \A i \in 1..SourceLen : ret.batch[i] = GetField(Source.storage[i], call.op)

\* C15: contiguous episode sampling of `size` episodes (or of one episode) on
\* a replay that is not vectorized raises exactly when the replay holds
\* fewer done Transitions than size, and returns whenever it holds at least
\* size of them.
C15_Claim ==
    (/\ SampleAsked /\ call.episodes /\ ~Source.vectorized
     /\ call.contiguous \/ call.size = 1)
        => (ret.kind = "raise" <=> SourceEpisodes < call.size)

\* C16: whenever sample(size, contiguous=True, episodes=True) with size >= 1
\* returns on a replay that is not vectorized, what it returns is one run
\* a .. b of the stored Transitions that ends on a done Transition, holds
\* exactly size done Transitions, and starts at index 0 or right after a
\* done Transition: size whole episodes, one after the other.
C16_WholeEpisodes ==
    (SampleAsked /\ Sampled(TRUE, TRUE) /\ ~Source.vectorized /\ ret.kind = "new") =>
        \E a, b \in 0..(SourceLen - 1) :
            /\ a <= b
            /\ ret.buf.storage = SubSeq(Source.storage, a + 1, b + 1)
            /\ IsDone(At(Source.storage, b))
            /\ DoneCount(ret.buf.storage) = call.size
            /\ a = 0 \/ IsDone(At(Source.storage, a - 1))

\* C16 witness: two whole episodes, the first two Transitions, came out of a
\* replay of three episodes of one Transition each.
C16_Witness ==
    /\ SampleAsked /\ Sampled(TRUE, TRUE) /\ ~Source.vectorized /\ ret.kind = "new"
    /\ call.size = 2 /\ SourceLen = 3 /\ SourceEpisodes = 3
    /\ ret.buf.storage = SubSeq(Source.storage, 1, 2)

\* C17: contiguous transition sampling of size k >= 1 from a replay of n
\* Transitions draws start from exactly 0 .. (n - 1) - k: it raises when
\* (n - 1) - k < 0, k = n included; otherwise it returns the Transitions at
\* start .. start + k - 1 for a start of that range, so that the run ends at
\* index n - 2 at the latest and never holds the last Transition; and every
\* start of the range can be drawn.
C17_ContiguousRange ==
    /\ (SampleAsked /\ Sampled(TRUE, FALSE)) =>
            IF (SourceLen - 1) - call.size < 0 THEN ret.kind = "raise"
            ELSE /\ ret.kind = "new"
                 /\ \E start \in 0..((SourceLen - 1) - call.size) :
                        /\ start + call.size - 1 <= SourceLen - 2
                        /\ ret.buf.storage =
                                SubSeq(Source.storage, start + 1, start + call.size)
                 /\ \A i \in 1..BufLen(ret.buf) :
                        ret.buf.storage[i] # At(Source.storage, SourceLen - 1)
    /\ \A b \in Bufs : \A size \in Sizes \ {0} :
       \A start \in 0..((BufLen(replay[b]) - 1) - size) :
            ENABLED (/\ CallSample(b, size, TRUE, FALSE)
                     /\ ret'.kind = "new"
                     /\ ret'.buf.storage = SubSeq(replay[b].storage, start + 1, start + size))

\* C17 witness: a run of two from a replay of three Transitions is the first
\* two of them.
C17_Witness ==
    /\ SampleAsked /\ Sampled(TRUE, FALSE) /\ call.size = 2 /\ SourceLen = 3
    /\ ret.kind = "new" /\ ret.buf.storage = SubSeq(Source.storage, 1, 2)

\* The calls that build a replay of their own.
Producing == {"slice", "sample", "add", "to"}

C19_IndicesInRange ==
    \A b \in Bufs : \A size \in Sizes : \A contiguous, episodes \in BOOLEAN :
        /\ ENABLED CallSample(b, size, contiguous, episodes)
        /\ ~SampleEmpty(replay[b], size) =>
                \A choice \in SampleChoices(replay[b], size, contiguous, episodes) :
                    /\ \A i \in 1..Len(choice.indices) :
                            0 <= choice.indices[i] /\ choice.indices[i] <= BufLen(replay[b]) - 1
                    /\ choice.depth <= 1
                    /\ choice.depth = 1 => episodes /\ ~contiguous /\ size > 1

\* C19 witness: a sample of two episodes that need not be contiguous
\* returned the first Transition and the third, each an episode, from a
\* replay of three.
C19_Witness ==
    /\ SampleAsked /\ Sampled(FALSE, TRUE) /\ call.size = 2 /\ ret.kind = "new"
    /\ SourceLen = 3 /\ SourceEpisodes = 3
    /\ ret.buf.storage = <<Source.storage[1], Source.storage[3]>>

\* C20: in episode sampling on a replay that is not vectorized, for every
\* `end` the draw from size - 1 .. num_episodes - size can give, the backward
\* scan meets a done Transition with count >= end before it runs off the
\* front of the list: end_idx is assigned, and it is the index of the done
\* Transition that has exactly `end` done Transitions after it.
C20_EndIdxAssigned ==
    \A b \in Bufs : (~replay[b].vectorized /\ BufLen(replay[b]) >= 1) =>
        LET dones == Dones(replay[b].storage)
        IN  \A size \in Sizes \ {0} : \A end \in EndRange(size, NumEpisodes(dones)) :
                LET end_idx == FindEndIdx(dones, Len(dones) - 1, 0, end)
                IN  /\ end_idx # Unassigned
                    /\ 0 <= end_idx /\ end_idx <= Len(dones) - 1
                    /\ dones[end_idx + 1]
                    /\ Cardinality({j \in (end_idx + 2)..Len(dones) : dones[j]}) = end

\* C20 witness: one episode was sampled from a replay of three Transitions,
\* the first and the last of them done, and the episode returned is the
\* first Transition: end was 1 and end_idx 0.
C20_Witness ==
    /\ SampleAsked /\ Sampled(TRUE, TRUE) /\ call.size = 1 /\ ret.kind = "new"
    /\ SourceLen = 3 /\ SourceEpisodes = 2
    /\ IsDone(Source.storage[1]) /\ IsDone(Source.storage[3])
    /\ ret.buf.storage = <<Source.storage[1]>>

====
